---- MODULE Spec2Model ----
(***************************************************************************)
(* Model of otter/dbattr.py: the record-adapter classes that standardise   *)
(* data going into or coming out of the database.  Every class is a        *)
(* one-shot constructor followed by tojson(); the model keeps the last     *)
(* call's arguments, the object it built, the value it returned and the    *)
(* exception it raised.                                                    *)
(*                                                                         *)
(* Python strings that the code inspects character by character (aliases)  *)
(* are sequences of one-character strings; Python objects are records of   *)
(* their attributes, so a missing attribute is a missing record field.     *)
(***************************************************************************)
EXTENDS Integers, Sequences, FiniteSets, TLC

VARIABLES pc, op, arg, sourcemap, self, built, ret, err, lookups, i

vars == <<pc, op, arg, sourcemap, self, built, ret, err, lookups, i>>

\* longest alias string drawn as an input
MaxLen == 3
\* longest photometry list drawn as an input
MaxRecords == 2

(***************************************************************************)
(* Strings                                                                 *)
(***************************************************************************)
Chars == {"a", "-", ","}

Strings == UNION {[1..n -> Chars] : n \in 0..MaxLen}

\* c in s
Contains(s, c) == \E k \in 1..Len(s) : s[k] = c

\* s.split(c): always at least one part, empty parts kept
RECURSIVE Split(_, _)
Split(s, c) ==
  IF ~Contains(s, c) THEN <<s>>
  ELSE LET k == CHOOSE k \in 1..Len(s) : s[k] = c /\ \A j \in 1..(k - 1) : s[j] # c
       IN  <<SubSeq(s, 1, k - 1)>> \o Split(SubSeq(s, k + 1, Len(s)), c)

\* s[:-1]
DropLast(s) == IF Len(s) = 0 THEN s ELSE SubSeq(s, 1, Len(s) - 1)

(***************************************************************************)
(* Python values                                                           *)
(***************************************************************************)
None == [kind |-> "None"]

Str(s) == [kind |-> "str", s |-> s]

List(items) == [items |-> items, kind |-> "list"]

Num(n) == [kind |-> "num", n |-> n]

Bool(b) == [b |-> b, kind |-> "bool"]

\* float(x) and numpy floats, as reduced fractions n/d
RECURSIVE GCD(_, _)
GCD(a, b) == IF b = 0 THEN a ELSE GCD(b, a % b)

Float(n, d) == [d |-> d \div GCD(n, d), kind |-> "float", n |-> n \div GCD(n, d)]

RECURSIVE Sum(_)
Sum(s) == IF Len(s) = 0 THEN 0 ELSE s[1] + Sum(Tail(s))

\* np.mean(np.array(xs).astype(float)) of a non-empty list
Mean(xs) == Float(Sum(xs), Len(xs))

\* what a call produced: a value or an exception, and the sourcemap keys it looked up
Return(v, ls) == [err |-> "none", lookups |-> ls, val |-> v]

Raise(e, ls) == [err |-> e, lookups |-> ls, val |-> None]

\* an exception raised by a method that had already changed obj
RaiseAt(e, obj, ls) == [err |-> e, lookups |-> ls, val |-> obj]

(***************************************************************************)
(* Source                                                                  *)
(***************************************************************************)
SourceDicts ==
  { [alias |-> <<"a">>, bibcode |-> "bibA", name |-> "A"],
    [alias |-> <<"a", "-">>, bibcode |-> "bibX", name |-> "X"],
    [alias |-> <<>>, bibcode |-> "bibE", name |-> "E"],
    [bibcode |-> "bibK", name |-> "K"] }

\* Source.__init__
Source_init(sourceDict) ==
  IF {"name", "bibcode", "alias"} \subseteq DOMAIN sourceDict
  THEN Return([alias |-> sourceDict.alias, bibcode |-> sourceDict.bibcode,
               cls |-> "Source", name |-> sourceDict.name], <<>>)
  ELSE Raise("KeyError", <<>>)

\* Source.tojson
Source_tojson(s) ==
  Return([alias |-> s.alias, bibcode |-> s.bibcode, name |-> s.name], <<>>)

Sources == {Source_init(d).val : d \in {x \in SourceDicts : Source_init(x).err = "none"}}

KeyPool == {<<>>, <<"a">>, <<"a", "-">>}

\* the sourcemaps a caller may pass: a dict from alias to Source, or None
Dict(m) == [kind |-> "dict", m |-> m]

Sourcemaps == {None} \cup {Dict(m) : m \in UNION {[K -> Sources] : K \in SUBSET KeyPool}}

\* sourcemap.get(a) in place of sourcemap[a]
GetItem_get(sm, a) ==
  IF sm.kind = "None" THEN Raise("TypeError", <<a>>)
  ELSE IF a \in DOMAIN sm.m THEN Return(sm.m[a], <<a>>)
  ELSE Return(None, <<a>>)

\* sourcemap[a]
GetItem(sm, a) ==
  IF sm.kind = "None" THEN Raise("TypeError", <<a>>)
  ELSE IF a \in DOMAIN sm.m THEN Return(sm.m[a], <<a>>)
  ELSE Raise("KeyError", <<a>>)

\* [sourcemap[a] for a in parts]: stops at the first lookup that raises
RECURSIVE GetItems(_, _)
GetItems(sm, parts) ==
  IF Len(parts) = 0 THEN Return(List(<<>>), <<>>)
  ELSE LET h == GetItem(sm, Head(parts))
       IN  IF h.err # "none" THEN h
           ELSE LET t == GetItems(sm, Tail(parts))
                IN  IF t.err # "none" THEN Raise(t.err, h.lookups \o t.lookups)
                    ELSE Return(List(<<h.val>> \o t.val.items), h.lookups \o t.lookups)

\* str(x) of a string
str(x) == x.s

\* the uuid test made before the comma test
aliasToSource_hyphenFirst(alias, sm) ==
  LET a == str(alias)
  IN  IF Contains(a, "-") THEN Return(Str("computed"), <<>>)
      ELSE IF Contains(a, ",") THEN GetItems(sm, Split(a, ","))
      ELSE GetItem(sm, a)

\* the uuid test made only for aliases the sourcemap does not know
aliasToSource_knownFirst(alias, sm) ==
  LET a == str(alias)
  IN  IF Contains(a, ",") THEN GetItems(sm, Split(a, ","))
      ELSE IF Contains(a, "-") /\ ~(sm.kind = "dict" /\ a \in DOMAIN sm.m)
           THEN Return(Str("computed"), <<>>)
      ELSE GetItem(sm, a)

\* Source.aliasToSource
aliasToSource(alias, sm) ==
  LET a == str(alias)
  IN  IF Contains(a, ",") THEN GetItems(sm, Split(a, ","))
      ELSE IF Contains(a, "-") THEN Return(Str("computed"), <<>>)
      ELSE GetItem(sm, a)

(***************************************************************************)
(* DBAttr.tojson and its copies in RA and Dec                              *)
(***************************************************************************)
\* x.alias for x an element of self.source or self.source itself
AliasOf(x) ==
  IF "cls" \in DOMAIN x /\ x.cls = "Source" THEN Return(x.alias, <<>>)
  ELSE Raise("AttributeError", <<>>)

\* for s in self.source: alias += s.alias + ','
RECURSIVE JoinAliases(_)
JoinAliases(items) ==
  IF Len(items) = 0 THEN Return(<<>>, <<>>)
  ELSE LET h == AliasOf(Head(items))
       IN  IF h.err # "none" THEN h
           ELSE LET t == JoinAliases(Tail(items))
                IN  IF t.err # "none" THEN t
                    ELSE Return(h.val \o <<",">> \o t.val, <<>>)

\* the trailing comma left in place
SourceAlias_noTrim(obj) ==
  IF "source" \notin DOMAIN obj THEN Raise("AttributeError", <<>>)
  ELSE IF "kind" \in DOMAIN obj.source /\ obj.source.kind = "list"
       THEN JoinAliases(obj.source.items)
  ELSE IF "kind" \in DOMAIN obj.source /\ obj.source.kind = "None"
       THEN Return(<<>>, <<>>)
  ELSE AliasOf(obj.source)

\* the alias string computed by the first half of tojson
SourceAlias(obj) ==
  IF "source" \notin DOMAIN obj THEN Raise("AttributeError", <<>>)
  ELSE IF "kind" \in DOMAIN obj.source /\ obj.source.kind = "list"
       THEN LET j == JoinAliases(obj.source.items)
            IN  IF j.err # "none" THEN j ELSE Return(DropLast(j.val), <<>>)
  ELSE IF "kind" \in DOMAIN obj.source /\ obj.source.kind = "None"
       THEN Return(<<>>, <<>>)
  ELSE AliasOf(obj.source)

\* the second half of tojson, emitting attribute valueAttr under the key 'value'
EmitJson(obj, valueAttr) ==
  LET a == SourceAlias(obj)
  IN  IF a.err # "none" THEN a
      ELSE IF valueAttr \notin DOMAIN obj THEN Raise("AttributeError", <<>>)
      ELSE IF Len(a.val) = 0 THEN Return([value |-> obj[valueAttr]], <<>>)
      ELSE Return([source |-> a.val, value |-> obj[valueAttr]], <<>>)

\* DBAttr.tojson
DBAttr_tojson(obj) == EmitJson(obj, "value")

\* RA.tojson
RA_tojson(obj) == EmitJson(obj, "valueString")

\* Dec.tojson
Dec_tojson(obj) == EmitJson(obj, "valueString")

\* method resolution: the class's own tojson, else the inherited one
tojson(obj) ==
  CASE obj.cls = "Source" -> Source_tojson(obj)
    [] obj.cls = "RA"     -> RA_tojson(obj)
    [] obj.cls = "Dec"    -> Dec_tojson(obj)
    [] OTHER              -> DBAttr_tojson(obj)

(***************************************************************************)
(* Scalar attributes                                                       *)
(***************************************************************************)
\* coord.Angle(v, unit=unit): both documented formats parse, anything else raises
Angle(v, unit) ==
  CASE v \in {"12:30:00", "12 30 00"} ->
         Return([kind |-> "Angle", minutes |-> 30, seconds |-> 0, unit |-> unit, whole |-> 12], <<>>)
    [] v = "1:02:03" ->
         Return([kind |-> "Angle", minutes |-> 2, seconds |-> 3, unit |-> unit, whole |-> 1], <<>>)
    [] OTHER -> Raise("ValueError", <<>>)

\* Angle.to_string(unit=unit), for the unit the angle was built with
to_string(angle, unit) ==
  CASE angle.whole = 12 /\ unit = "hourangle" -> "12h30m00s"
    [] angle.whole = 12 /\ unit = "deg"       -> "12d30m00s"
    [] angle.whole = 1 /\ unit = "hourangle"  -> "1h02m03s"
    [] angle.whole = 1 /\ unit = "deg"        -> "1d02m03s"

\* float(v) of a string
FloatOfStr(v) ==
  CASE v = "0.5" -> Return(Float(1, 2), <<>>)
    [] v = "2"   -> Return(Float(2, 1), <<>>)
    [] OTHER     -> Raise("ValueError", <<>>)

\* obj with the attribute source set to src
WithSource(obj, src) ==
  [k \in DOMAIN obj \cup {"source"} |-> IF k = "source" THEN src ELSE obj[k]]

\* if <resolve>: self.source = Source.aliasToSource(d['source'], sourcemap)
\* else: self.source = None
SetSource(obj, d, sm, resolve) ==
  IF resolve
  THEN LET src == aliasToSource(d.source, sm)
       IN  IF src.err # "none" THEN Raise(src.err, src.lookups)
           ELSE Return(WithSource(obj, src.val), src.lookups)
  ELSE Return(WithSource(obj, None), <<>>)

\* the source resolved without looking at the sourcemap argument
RA_init_noNoneTest(ra, sm) ==
  LET value == Angle(ra.value, "hourangle")
  IN  IF value.err # "none" THEN value
      ELSE SetSource([cls |-> "RA", value |-> value.val,
                      valueString |-> to_string(value.val, "hourangle")],
                     ra, sm, "source" \in DOMAIN ra)

\* RA.__init__
RA_init(ra, sm) ==
  LET value == Angle(ra.value, "hourangle")
  IN  IF value.err # "none" THEN value
      ELSE SetSource([cls |-> "RA", value |-> value.val,
                      valueString |-> to_string(value.val, "hourangle")],
                     ra, sm, "source" \in DOMAIN ra /\ sm # None)

\* Dec.__init__
Dec_init(dec, sm) ==
  LET value == Angle(dec.value, "deg")
  IN  IF value.err # "none" THEN value
      ELSE SetSource([cls |-> "Dec", value |-> value.val,
                      valueString |-> to_string(value.val, "deg")],
                     dec, sm, "source" \in DOMAIN dec /\ sm # None)

\* the empty-string guard dropped, as in DiscoveryDate
Redshift_init_noGuard(z, sm) ==
  LET value == FloatOfStr(z.value)
  IN  IF value.err # "none" THEN value
      ELSE SetSource([cls |-> "Redshift", value |-> value.val], z, sm,
                     "source" \in DOMAIN z /\ sm # None)

\* Redshift.__init__
Redshift_init(z, sm) ==
  LET value == FloatOfStr(z.value)
  IN  IF value.err # "none" THEN value
      ELSE SetSource([cls |-> "Redshift", value |-> value.val], z, sm,
                     "source" \in DOMAIN z /\ Len(z.source.s) > 0 /\ sm # None)

\* DiscoveryDate.__init__
DiscoveryDate_init(discoveryDate, sm) ==
  SetSource([cls |-> "DiscoveryDate", value |-> discoveryDate.value], discoveryDate, sm,
            "source" \in DOMAIN discoveryDate /\ sm # None)

\* Name.__init__
Name_init(name, aliases) ==
  IF aliases # None
  THEN Return([aliases |-> aliases, cls |-> "Name", name |-> name], <<>>)
  ELSE Return([cls |-> "Name", name |-> name], <<>>)

\* Spectra.__init__
Spectra_init(spectra, band, sm) ==
  Return([cls |-> "Spectra", spectra |-> spectra], <<>>)

(***************************************************************************)
(* Photometry                                                              *)
(***************************************************************************)
\* lines 194-202: the attributes set before the loop
Photometry_begin(band) ==
  [band |-> band, cls |-> "Photometry", flux |-> List(<<>>), luminosity |-> List(<<>>),
   mag |-> List(<<>>), reqKeys |-> {"time", "luminosity", "source"},
   source |-> List(<<>>), time |-> List(<<>>), upperlimit |-> List(<<>>),
   wavelength |-> List(<<>>)]

\* obj.<attr>.append(x): only a list has append
AppendTo(obj, attr, x) ==
  IF obj[attr].kind = "list"
  THEN Return([obj EXCEPT ![attr] = List(Append(obj[attr].items, x))], <<>>)
  ELSE RaiseAt("AttributeError", obj, <<>>)

\* lines 209-212: a list of times replaces self.time by its mean, a scalar is appended
Photometry_time(obj, d) ==
  IF "time" \notin DOMAIN d THEN RaiseAt("KeyError", obj, <<>>)
  ELSE IF d.time.kind = "list"
  THEN Return([obj EXCEPT !.time = Mean(d.time.items)], <<>>)
  ELSE AppendTo(obj, "time", Float(d.time.n, 1))

\* the missing flux recorded in the flux list
Photometry_optional_fluxList(obj, d) ==
  LET o1 == IF "luminosity" \in DOMAIN d
            THEN AppendTo(obj, "luminosity", Float(d.luminosity.n, 1)).val
            ELSE AppendTo(obj, "luminosity", None).val
      o2 == IF "flux" \in DOMAIN d
            THEN AppendTo(o1, "flux", Float(d.flux.n, 1)).val
            ELSE AppendTo(o1, "flux", None).val
      o3 == IF "magnitude" \in DOMAIN d
            THEN AppendTo(o2, "mag", Float(d.magnitude.n, 1)).val
            ELSE AppendTo(o2, "mag", None).val
      o4 == IF "wavelength" \in DOMAIN d
            THEN AppendTo(o3, "wavelength", d.wavelength).val
            ELSE AppendTo(o3, "wavelength", None).val
  IN  IF "upperlimit" \in DOMAIN d
      THEN AppendTo(o4, "upperlimit", TRUE)
      ELSE AppendTo(o4, "upperlimit", FALSE)

\* lines 217-240: the optional keys
Photometry_optional(obj, d) ==
  LET o1 == IF "luminosity" \in DOMAIN d
            THEN AppendTo(obj, "luminosity", Float(d.luminosity.n, 1)).val
            ELSE AppendTo(obj, "luminosity", None).val
      o2 == IF "flux" \in DOMAIN d
            THEN AppendTo(o1, "flux", Float(d.flux.n, 1)).val
            ELSE AppendTo(o1, "luminosity", None).val
      o3 == IF "magnitude" \in DOMAIN d
            THEN AppendTo(o2, "mag", Float(d.magnitude.n, 1)).val
            ELSE AppendTo(o2, "mag", None).val
      o4 == IF "wavelength" \in DOMAIN d
            THEN AppendTo(o3, "wavelength", d.wavelength).val
            ELSE AppendTo(o3, "wavelength", None).val
  IN  IF "upperlimit" \in DOMAIN d
      THEN AppendTo(o4, "upperlimit", TRUE)
      ELSE AppendTo(o4, "upperlimit", FALSE)

\* line 214, right-hand side: d['source'] resolved against the sourcemap
Photometry_source(d, sm) ==
  IF "source" \notin DOMAIN d THEN Raise("KeyError", <<>>)
  ELSE aliasToSource(d.source, sm)

\* the required-keys test passing as soon as one required key is present
Photometry_record_anyKey(obj, d, sm) ==
  IF obj.reqKeys \cap DOMAIN d = {} THEN RaiseAt("Exception", obj, <<>>)
  ELSE LET t == Photometry_time(obj, d)
       IN  IF t.err # "none" THEN t
           ELSE LET src == Photometry_source(d, sm)
                IN  IF src.err # "none" THEN RaiseAt(src.err, t.val, src.lookups)
                    ELSE LET o == Photometry_optional(AppendTo(t.val, "source", src.val).val, d)
                         IN  [o EXCEPT !.lookups = src.lookups]

\* lines 204-240: one pass of the loop body, for the record d
Photometry_record(obj, d, sm) ==
  IF ~(obj.reqKeys \subseteq DOMAIN d) THEN RaiseAt("Exception", obj, <<>>)
  ELSE LET t == Photometry_time(obj, d)
       IN  IF t.err # "none" THEN t
           ELSE LET src == Photometry_source(d, sm)
                IN  IF src.err # "none" THEN RaiseAt(src.err, t.val, src.lookups)
                    ELSE LET o == Photometry_optional(AppendTo(t.val, "source", src.val).val, d)
                         IN  [o EXCEPT !.lookups = src.lookups]

\* lines 244-247: a record without its None-valued fields
DropNone(obs) == [k \in {x \in DOMAIN obs : obs[x] # None} |-> obs[k]]

\* lines 242-248
Photometry_json(obj, photometry) ==
  [k \in DOMAIN obj \cup {"json"} |->
     IF k = "json" THEN List([n \in 1..Len(photometry) |-> DropNone(photometry[n])])
     ELSE obj[k]]

(***************************************************************************)
(* Inputs                                                                  *)
(***************************************************************************)
\* records {'value': v} and {'value': v, 'source': s}
ValueDicts(values) ==
  {[value |-> v] : v \in values} \cup
  {[source |-> Str(s), value |-> v] : v \in values, s \in Strings}

AngleInputs == {"12:30:00", "12 30 00", "1:02:03", "bad"}

FloatInputs == {"0.5", "2", "bad"}

DateInputs == {"2020-01-01"}

NameInputs == {"AT2020a"}

AliasListInputs == {None, List(<<"a">>)}

SpectraInputs == {List(<<>>), List(<<[flux |-> "1"]>>)}

BandInputs == {"g"}

\* the optional keys of a measurement whose values all derive from v
Optional(keys, v) ==
  [k \in keys |->
     CASE k = "flux"       -> Num(20 + v)
       [] k = "magnitude"  -> Num(30 + v)
       [] k = "wavelength" -> Num(40 + v)
       [] k = "upperlimit" -> IF v = 1 THEN Bool(TRUE) ELSE None]

OptionalKeys ==
  { {}, {"flux", "upperlimit"}, {"flux", "magnitude", "wavelength", "upperlimit"} }

TimeInputs(v) == {Num(v), List(<<v, v + 1, v + 1>>)}

PhotAliases == {<<"a">>, <<"a", "-">>}

\* measurement records that have the three required keys
CompleteRecords ==
  UNION { { [luminosity |-> Num(10 + v), source |-> Str(al), time |-> t] @@ Optional(ks, v) :
              t \in TimeInputs(v), al \in PhotAliases, ks \in OptionalKeys } : v \in 1..2 }

\* measurement records that lack required keys
IncompleteRecords ==
  { [flux |-> Num(21), source |-> Str(<<"a">>), time |-> Num(1)],
    [luminosity |-> Num(11), source |-> Str(<<"a">>)],
    [luminosity |-> Num(11), time |-> Num(1)],
    [flux |-> Num(21)] }

PhotRecords == CompleteRecords \cup IncompleteRecords

PhotLists == UNION {[1..n -> PhotRecords] : n \in 0..MaxRecords}

PhotSourcemaps ==
  {None} \cup {Dict(m) : m \in UNION {[K -> Sources] : K \in SUBSET {<<"a">>}}}

(***************************************************************************)
(* State                                                                   *)
(***************************************************************************)
NoObj == [cls |-> "none"]

Init ==
  /\ pc = "idle"
  /\ op = "start"
  /\ arg = None
  /\ sourcemap = None
  /\ self = NoObj
  /\ built = FALSE
  /\ ret = None
  /\ err = "none"
  /\ lookups = <<>>
  /\ i = 0

\* No call reads anything an earlier call left behind, so a behaviour is one
\* call made on a fresh interpreter, followed by tojson() on what it built.
Fresh == pc = "idle" /\ op = "start"

\* a call of a function that builds no object
Called(name, a, sm, r) ==
  /\ op' = name
  /\ arg' = a
  /\ sourcemap' = sm
  /\ self' = NoObj
  /\ built' = FALSE
  /\ ret' = r.val
  /\ err' = r.err
  /\ lookups' = r.lookups
  /\ UNCHANGED <<pc, i>>

\* a constructor call: the object exists only if __init__ returned
Constructed(name, a, sm, r) ==
  /\ op' = name
  /\ arg' = a
  /\ sourcemap' = sm
  /\ self' = IF r.err = "none" THEN r.val ELSE NoObj
  /\ built' = (r.err = "none")
  /\ ret' = None
  /\ err' = r.err
  /\ lookups' = r.lookups
  /\ UNCHANGED <<pc, i>>

CallAliasToSource ==
  /\ Fresh
  /\ \E alias \in Strings, sm \in Sourcemaps :
       Called("aliasToSource", [alias |-> Str(alias), sourcemap |-> sm], sm,
              aliasToSource(Str(alias), sm))

NewSource ==
  /\ Fresh
  /\ \E d \in SourceDicts : Constructed("Source", d, None, Source_init(d))

NewRA ==
  /\ Fresh
  /\ \E ra \in ValueDicts(AngleInputs), sm \in Sourcemaps :
       Constructed("RA", ra, sm, RA_init(ra, sm))

NewDec ==
  /\ Fresh
  /\ \E dec \in ValueDicts(AngleInputs), sm \in Sourcemaps :
       Constructed("Dec", dec, sm, Dec_init(dec, sm))

NewRedshift ==
  /\ Fresh
  /\ \E z \in ValueDicts(FloatInputs), sm \in Sourcemaps :
       Constructed("Redshift", z, sm, Redshift_init(z, sm))

NewDiscoveryDate ==
  /\ Fresh
  /\ \E d \in ValueDicts(DateInputs), sm \in Sourcemaps :
       Constructed("DiscoveryDate", d, sm, DiscoveryDate_init(d, sm))

NewName ==
  /\ Fresh
  /\ \E name \in NameInputs, aliases \in AliasListInputs :
       Constructed("Name", [aliases |-> aliases, name |-> name], None,
                   Name_init(name, aliases))

NewSpectra ==
  /\ Fresh
  /\ \E spectra \in SpectraInputs, band \in BandInputs, sm \in Sourcemaps :
       Constructed("Spectra", [band |-> band, spectra |-> spectra], sm,
                   Spectra_init(spectra, band, sm))

\* Photometry.__init__ up to the loop
NewPhotometry ==
  /\ Fresh
  /\ \E photometry \in PhotLists, band \in BandInputs, sm \in PhotSourcemaps :
       /\ op' = "Photometry"
       /\ arg' = [band |-> band, photometry |-> photometry]
       /\ sourcemap' = sm
       /\ self' = Photometry_begin(band)
  /\ pc' = "loop"
  /\ i' = 1
  /\ UNCHANGED <<built, ret, err, lookups>>

\* the loop body for the i-th record; an exception ends the construction
PhotometryRecord ==
  /\ pc = "loop"
  /\ i <= Len(arg.photometry)
  /\ LET r == Photometry_record(self, arg.photometry[i], sourcemap)
     IN  /\ self' = r.val
         /\ err' = r.err
         /\ lookups' = lookups \o r.lookups
         /\ pc' = IF r.err = "none" THEN "loop" ELSE "idle"
         /\ i' = IF r.err = "none" THEN i + 1 ELSE i
  /\ UNCHANGED <<op, arg, sourcemap, built, ret>>

\* the loop is over: build self.json and return
PhotometryJson ==
  /\ pc = "loop"
  /\ i > Len(arg.photometry)
  /\ self' = Photometry_json(self, arg.photometry)
  /\ built' = TRUE
  /\ pc' = "idle"
  /\ UNCHANGED <<op, arg, sourcemap, ret, err, lookups, i>>

\* obj.tojson() on the object built last
CallTojson ==
  /\ pc = "idle"
  /\ built
  /\ LET r == tojson(self)
     IN  /\ op' = "tojson"
         /\ ret' = r.val
         /\ err' = r.err
         /\ lookups' = r.lookups
  /\ UNCHANGED <<pc, arg, sourcemap, self, built, i>>

Next ==
  \/ CallAliasToSource
  \/ NewSource
  \/ NewRA
  \/ NewDec
  \/ NewRedshift
  \/ NewDiscoveryDate
  \/ NewName
  \/ NewSpectra
  \/ NewPhotometry
  \/ PhotometryRecord
  \/ PhotometryJson
  \/ CallTojson

Spec == Init /\ [][Next]_vars

(***************************************************************************)
(* Properties                                                              *)
(***************************************************************************)
\* the class whose constructor ran
Cls == IF op = "tojson" THEN self.cls ELSE op

IsDict(sm) == sm.kind = "dict"

\* the parts of s between its commas, counted from the comma positions
Commas(s) == {k \in 1..Len(s) : s[k] = ","}

CommaBound(s, n) ==
  IF n = 0 THEN 0
  ELSE IF n > Cardinality(Commas(s)) THEN Len(s) + 1
  ELSE CHOOSE k \in Commas(s) : Cardinality({j \in Commas(s) : j <= k}) = n

Part(s, n) == SubSeq(s, CommaBound(s, n - 1) + 1, CommaBound(s, n) - 1)

NumParts(s) == Cardinality(Commas(s)) + 1

\* C1: for an alias with a comma and a sourcemap that has every comma-separated
\* part as a key, aliasToSource returns the list whose n-th entry is
\* sourcemap[n-th part]: one entry per part, input order, repeats kept, and a
\* part with a hyphen is looked up, not turned into "computed".
C1_CommaList ==
  (/\ op = "aliasToSource"
   /\ Contains(arg.alias.s, ",")
   /\ IsDict(sourcemap)
   /\ \A n \in 1..NumParts(arg.alias.s) : Part(arg.alias.s, n) \in DOMAIN sourcemap.m)
  => /\ err = "none"
     /\ ret.kind = "list"
     /\ Len(ret.items) = NumParts(arg.alias.s)
     /\ \A n \in 1..NumParts(arg.alias.s) : ret.items[n] = sourcemap.m[Part(arg.alias.s, n)]

\* a comma alias with a hyphenated part was resolved to two different Sources
C1_Witness ==
  /\ op = "aliasToSource"
  /\ arg.alias.s = <<"a", "-", ",">>
  /\ err = "none"
  /\ ret.kind = "list"
  /\ Len(ret.items) = 2
  /\ ret.items[1].alias = <<"a">>
  /\ ret.items[2].alias = <<"a", "-">>

\* C2: for an alias with a hyphen and no comma, aliasToSource returns
\* "computed" whatever the sourcemap is (None, empty, or holding the alias as a
\* key), looks nothing up and raises nothing.
C2_Computed ==
  (/\ op = "aliasToSource"
   /\ Contains(arg.alias.s, "-")
   /\ ~Contains(arg.alias.s, ","))
  => /\ err = "none"
     /\ ret = Str("computed")
     /\ lookups = <<>>

\* a hyphenated alias that is a key of the sourcemap still gave "computed"
C2_Witness ==
  /\ op = "aliasToSource"
  /\ arg.alias.s = <<"a", "-">>
  /\ IsDict(sourcemap)
  /\ arg.alias.s \in DOMAIN sourcemap.m
  /\ ret = Str("computed")

\* C3: for an alias with no comma and no hyphen and a sourcemap dict:
\* if the alias is not a key the call raises KeyError and returns nothing,
\* if it is a key the call returns sourcemap[alias]; the sourcemap is the one
\* that was passed in either case.
C3_SingleLookup ==
  (/\ op = "aliasToSource"
   /\ ~Contains(arg.alias.s, ",")
   /\ ~Contains(arg.alias.s, "-")
   /\ IsDict(arg.sourcemap))
  => /\ sourcemap = arg.sourcemap
     /\ IF arg.alias.s \in DOMAIN arg.sourcemap.m
        THEN err = "none" /\ ret = arg.sourcemap.m[arg.alias.s]
        ELSE err = "KeyError" /\ ret = None

\* a plain alias missing from a non-empty sourcemap raised KeyError
C3_Witness ==
  /\ op = "aliasToSource"
  /\ arg.alias.s = <<"a">>
  /\ IsDict(sourcemap)
  /\ DOMAIN sourcemap.m = {<<>>, <<"a", "-">>}
  /\ err = "KeyError"

Scalars == {"RA", "Dec", "Redshift", "DiscoveryDate"}

IsSource(x) == "cls" \in DOMAIN x /\ x.cls = "Source"

IsNone(x) == "kind" \in DOMAIN x /\ x.kind = "None"

IsList(x) == "kind" \in DOMAIN x /\ x.kind = "list"

\* the Sources behind an attribute: none, one, or the list's
Provenance(src) ==
  IF IsNone(src) THEN <<>>
  ELSE IF IsList(src) THEN src.items
  ELSE <<src>>

\* the source is absent, a Source, or a list of Sources
HasSources(src) ==
  \/ IsNone(src)
  \/ IsSource(src)
  \/ IsList(src) /\ \A n \in 1..Len(src.items) : IsSource(src.items[n])

\* the aliases of ss with one comma between neighbours
RECURSIVE CommaJoin(_)
CommaJoin(ss) ==
  IF Len(ss) = 0 THEN <<>>
  ELSE IF Len(ss) = 1 THEN ss[1].alias
  ELSE ss[1].alias \o <<",">> \o CommaJoin(Tail(ss))

RECURSIVE AliasLengths(_)
AliasLengths(ss) == IF Len(ss) = 0 THEN 0 ELSE Len(ss[1].alias) + AliasLengths(Tail(ss))

\* tojson() of a scalar attribute whose source is absent, a Source or a list of Sources
ScalarTojson == op = "tojson" /\ self.cls \in Scalars /\ HasSources(self.source)

\* C4 as stated: the key "source" is emitted exactly when provenance exists,
\* and the string neither starts nor ends with a comma.
C4_SourceIffProvenance ==
  ScalarTojson
  => /\ err = "none"
     /\ ("source" \in DOMAIN ret) <=> ~IsNone(self.source)
     /\ "source" \in DOMAIN ret
          => /\ ret.source = CommaJoin(Provenance(self.source))
             /\ Head(ret.source) # ","
             /\ ret.source[Len(ret.source)] # ","

\* C4 amended: the key "source" is emitted exactly when the joined alias
\* string is non-empty; that string is the aliases in list order with k-1
\* commas added between them and none added in front or behind.
C4_SourceIffAlias ==
  ScalarTojson
  => LET ss == Provenance(self.source)
     IN  /\ err = "none"
         /\ "value" \in DOMAIN ret
         /\ DOMAIN ret \subseteq {"value", "source"}
         /\ ("source" \in DOMAIN ret) <=> Len(CommaJoin(ss)) > 0
         /\ "source" \in DOMAIN ret
              => /\ ret.source = CommaJoin(ss)
                 /\ Len(ret.source) = AliasLengths(ss) + Len(ss) - 1

\* a list of three Sources, the first with an empty alias, was joined
C4_Witness ==
  /\ ScalarTojson
  /\ IsList(self.source)
  /\ Len(self.source.items) = 3
  /\ self.source.items[1].alias = <<>>
  /\ self.source.items[3].alias = <<"a", "-">>
  /\ err = "none"
  /\ "source" \in DOMAIN ret

\* C5: tojson() of every object that was built returns a mapping and raises
\* nothing.
C5_TojsonReturns == op = "tojson" => err = "none"

ValueParses == arg.value # "bad"

\* C6: RA and Dec built with sourcemap None: no lookup is made and no lookup
\* error raised; when the value parses the object is built with source None,
\* with or without a "source" key, and tojson() returns only the key "value".
C6_NoSourcemap ==
  (Cls \in {"RA", "Dec"} /\ sourcemap = None)
  => /\ lookups = <<>>
     /\ err \in {"none", "ValueError"}
     /\ ValueParses => /\ err = "none"
                       /\ built
                       /\ self.source = None
                       /\ op = "tojson" => DOMAIN ret = {"value"}

\* an RA record with a source alias, built without sourcemap, was serialised
C6_Witness ==
  /\ op = "tojson"
  /\ self.cls = "RA"
  /\ sourcemap = None
  /\ "source" \in DOMAIN arg
  /\ arg.source.s = <<"a">>
  /\ DOMAIN ret = {"value"}

RequiredKeys == {"time", "luminosity", "source"}

Complete(d) == RequiredKeys \subseteq DOMAIN d

\* aliasToSource cannot fail on the record's source
Resolvable(d, sm) ==
  \/ Contains(d.source.s, "-")
  \/ IsDict(sm) /\ d.source.s \in DOMAIN sm.m

\* the constructor of Photometry has returned or raised
PhotometryOver == op = "Photometry" /\ pc = "idle"

\* C7: a photometry list whose records are complete and resolvable, with list
\* times and scalar times in any order, is constructed without an exception.
C7_MixedTimes ==
  (/\ PhotometryOver
   /\ \A n \in 1..Len(arg.photometry) :
        Complete(arg.photometry[n]) /\ Resolvable(arg.photometry[n], sourcemap))
  => err = "none" /\ built

\* the lists that get one entry per processed record
PerRecord == {"source", "mag", "wavelength", "upperlimit"}

\* C8: a photometry list with a record that lacks a required key is never
\* constructed; the missing-keys exception is raised for a record that lacks
\* one, before anything of that record is appended; and it is never raised
\* when every record has the three keys.
C8_RequiredKeys ==
  op = "Photometry"
  => /\ (PhotometryOver /\ \E n \in 1..Len(arg.photometry) : ~Complete(arg.photometry[n]))
          => err # "none" /\ ~built
     /\ err = "Exception"
          => /\ ~Complete(arg.photometry[i])
             /\ \A n \in 1..(i - 1) : Complete(arg.photometry[n])
             /\ \A a \in PerRecord : Len(self[a].items) = i - 1
             /\ IsList(self.time) => Len(self.time.items) = i - 1
     /\ (\A n \in 1..Len(arg.photometry) : Complete(arg.photometry[n]))
          => err # "Exception"

\* the second record lacks only luminosity and stopped the construction
C8_Witness ==
  /\ PhotometryOver
  /\ err = "Exception"
  /\ i = 2
  /\ DOMAIN arg.photometry[2] = {"time", "source", "flux"}
  /\ Len(self.source.items) = 1

\* the records processed so far
Processed == SubSeq(arg.photometry, 1, i - 1)

FloatOrNone(d, key) == IF key \in DOMAIN d THEN Float(d[key].n, 1) ELSE None

\* what each record adds to luminosity: its value, and a None if it has no flux
RECURSIVE LuminosityOf(_)
LuminosityOf(ds) ==
  IF Len(ds) = 0 THEN <<>>
  ELSE <<Float(ds[1].luminosity.n, 1)>>
       \o (IF "flux" \in DOMAIN ds[1] THEN <<>> ELSE <<None>>)
       \o LuminosityOf(Tail(ds))

HasFlux(d) == "flux" \in DOMAIN d

NumWithFlux(ds) == Cardinality({n \in 1..Len(ds) : HasFlux(ds[n])})

\* C9: after k records with scalar time, the lists time, source, mag,
\* wavelength and upperlimit hold k entries, the n-th from record n, and
\* upperlimit[n] says whether record n has the key; flux holds the values of
\* the records that have flux, and luminosity holds k values plus one None
\* for each record without flux.
C9_Aligned ==
  (/\ op \in {"Photometry", "tojson"}
   /\ Cls = "Photometry"
   /\ err = "none" \/ op = "tojson"
   /\ \A n \in 1..(i - 1) : arg.photometry[n].time.kind = "num")
  => LET k == i - 1
         ds == Processed
     IN  /\ self.time = List([n \in 1..k |-> Float(ds[n].time.n, 1)])
         /\ self.source = List([n \in 1..k |-> aliasToSource(ds[n].source, sourcemap).val])
         /\ self.mag = List([n \in 1..k |-> FloatOrNone(ds[n], "magnitude")])
         /\ self.wavelength =
              List([n \in 1..k |-> IF "wavelength" \in DOMAIN ds[n] THEN ds[n].wavelength ELSE None])
         /\ self.upperlimit = List([n \in 1..k |-> "upperlimit" \in DOMAIN ds[n]])
         /\ self.flux = List([n \in 1..NumWithFlux(ds) |-> Float(SelectSeq(ds, HasFlux)[n].flux.n, 1)])
         /\ self.luminosity = List(LuminosityOf(ds))
         /\ Len(self.luminosity.items) = k + (k - NumWithFlux(ds))

\* two records were processed, the first without flux, the second with flux
\* and upperlimit
C9_Witness ==
  /\ op = "Photometry"
  /\ err = "none"
  /\ i = 3
  /\ ~HasFlux(arg.photometry[1])
  /\ HasFlux(arg.photometry[2])
  /\ arg.photometry[1].time.kind = "num"
  /\ arg.photometry[2].time.kind = "num"
  /\ self.upperlimit.items = <<FALSE, TRUE>>
  /\ Len(self.luminosity.items) = 3
  /\ Len(self.flux.items) = 1

\* the constructor went through aliasToSource with the record's source
Resolved ==
  LET r == aliasToSource(arg.source, sourcemap)
  IN  /\ err = r.err
      /\ lookups = r.lookups
      /\ r.err = "none" => built /\ self.source = r.val

\* the constructor left the source absent
LeftAbsent == err = "none" /\ built /\ lookups = <<>> /\ self.source = None

\* C10: Redshift resolves its source exactly when the source is present, a
\* non-empty string, and a sourcemap is given, and otherwise leaves it absent
\* without error; DiscoveryDate resolves it whenever it is present and a
\* sourcemap is given, the empty string included.
C10_Guards ==
  /\ (op = "Redshift" /\ ValueParses)
       => IF "source" \in DOMAIN arg /\ arg.source.s # <<>> /\ sourcemap # None
          THEN Resolved ELSE LeftAbsent
  /\ op = "DiscoveryDate"
       => IF "source" \in DOMAIN arg /\ sourcemap # None
          THEN Resolved ELSE LeftAbsent

\* DiscoveryDate looked the empty string up in the sourcemap and found it
C10_Witness ==
  /\ op = "DiscoveryDate"
  /\ "source" \in DOMAIN arg
  /\ arg.source.s = <<>>
  /\ lookups = << <<>> >>
  /\ err = "none"
  /\ self.source = sourcemap.m[<<>>]

====
